---- MODULE Spec2Model ----
(***************************************************************************)
(* Cart and checkout flow of the e-commerce API (src/main.py).             *)
(*                                                                         *)
(* The document store holds three collections: products, carts, orders.    *)
(* Every store call (find_one, update_one, insert_one, delete_one) is one  *)
(* atomic step; the calls of one request may interleave with the calls of  *)
(* other requests.  The local computation of a handler belongs to the step *)
(* of the store call next to it.  A handler that has returned stays in     *)
(* "done" for one step (respond), which nothing else precedes: the state   *)
(* in which pc[r] = "done" is the store as the call left it.               *)
(*                                                                         *)
(* Modelled handlers: add_to_cart, get_cart, checkout and, for the cart    *)
(* lines it leaves dangling, delete_product.  add_product and              *)
(* update_product are not modelled: a product id either names a product    *)
(* from the start or never does, and stock changes by checkout alone.      *)
(* Requests that change nothing and return an error (a delete of a         *)
(* missing product) are left out.                                          *)
(*                                                                         *)
(* An optional document is a sequence of length 0 (absent) or 1 (present). *)
(* Prices are integers (minor units); get_cart and checkout both add       *)
(* price * quantity line by line in cart order.  Cart quantities are       *)
(* positive.  The variables pre, solo, stale, serial, first and added are  *)
(* history variables: no handler reads them.                               *)
(***************************************************************************)
EXTENDS Integers, Sequences, FiniteSets, TLC

\* ---------------------------------------------------------------- bounds
MaxReqs == 3        \* requests served in one behaviour
MaxConc == 2        \* requests in flight at the same time
MaxQty == 1         \* largest quantity of one add_to_cart request
MaxStock == 2       \* largest initial stock of a product

\* ------------------------------------------------------------ identifiers
Users == {"u1", "u2"}
ProductIds == {"p1", "p2"}
BadId == "not-an-object-id"
ProductInputs == ProductIds \cup {BadId}
Reqs == 1..MaxConc

\* bson.ObjectId(s) raises InvalidId unless s is a well-formed identifier
ObjectIdOk(s) == s # BadId

Price == [p \in ProductIds |-> IF p = "p1" THEN 10 ELSE 3]

VARIABLES
    products,   \* products collection: product id -> <<>> or <<[price, stock]>>
    carts,      \* carts collection: user id -> <<>> or <<items>>
    orders,     \* orders collection, in insertion order
    pc,         \* position of each request handler
    op,         \* the request: [kind, user_id, productId, quantity]
    cart,       \* local cart["items"] read by get_cart / checkout
    idx,        \* position of the `for item in ...` loop
    found,      \* add_to_cart: truthiness of the local `cart`
    order,      \* checkout: local `order`; get_cart: products / total_price
    result,     \* the response of a handler that has returned
    served,     \* number of requests received so far
    pre,        \* history: the store when the request made its first store call
    solo,       \* history: no other request made a step while this one ran
    stale,      \* history: another checkout deleted the user's cart after this
                \*          checkout had read it
    serial,     \* history: the user started with no cart line and has only had
                \*          add_to_cart requests, each run without interleaving
    first,      \* history: the product ids of those requests, each once, in the
                \*          order of their first add_to_cart
    added       \* history: per product id, the sum of their quantities

vars == <<products, carts, orders, pc, op, cart, idx, found, order, result,
          served, pre, solo, stale, serial, first, added>>

Snapshot == [products |-> products, carts |-> carts, orders |-> orders]
NoSnapshot == [products |-> [p \in ProductIds |-> <<>>],
               carts |-> [u \in Users |-> <<>>],
               orders |-> <<>>]

NoOp == [kind |-> "none", user_id |-> "", productId |-> "", quantity |-> 0]
NoOrder == [id |-> 0, user_id |-> "", products |-> <<>>, total |-> 0]
NoResult == [status |-> 0, detail |-> "", products |-> <<>>, total |-> 0]

\* an HTTP response: status, message or error detail, and the body's fields
Response(status, detail) ==
    [status |-> status, detail |-> detail, products |-> <<>>, total |-> 0]

Active(r) == pc[r] # "idle"
Returned == \E r \in Reqs : pc[r] = "done"

\* a step of handler r: every other request in flight has been interleaved with
Step(r, starting) ==
    solo' = [x \in Reqs |->
                IF x = r THEN (IF starting THEN TRUE ELSE solo[x])
                ELSE IF Active(x) THEN FALSE ELSE solo[x]]

\* a request arrives and its handler runs up to its first store call
Begin(r, kind, u, p, q) ==
    /\ ~Returned
    /\ served < MaxReqs
    /\ pc[r] = "idle"
    /\ \A x \in Reqs : x < r => pc[x] # "idle"
    /\ served' = served + 1
    /\ op' = [op EXCEPT ![r] = [kind |-> kind, user_id |-> u, productId |-> p, quantity |-> q]]
    /\ pre' = [pre EXCEPT ![r] = Snapshot]
    /\ Step(r, TRUE)

\* a later step of handler r
Continue(r, at) ==
    /\ ~Returned
    /\ pc[r] = at
    /\ Step(r, FALSE)
    /\ UNCHANGED <<op, pre, served>>

\* the handler returns (or raises) with the given response
Return(r, resp) ==
    /\ pc' = [pc EXCEPT ![r] = "done"]
    /\ result' = [result EXCEPT ![r] = resp]

\* ------------------------------------------------------ store operations
\* index of the first element of items whose productId is p, 0 if none
FirstMatch(items, p) ==
    IF \E k \in 1..Len(items) : items[k].productId = p
    THEN CHOOSE k \in 1..Len(items) :
            /\ items[k].productId = p
            /\ \A j \in 1..(k - 1) : items[j].productId # p
    ELSE 0

\* find_one({"user_id": u, "items.productId": p}) is truthy
HasLine(cs, u, p) == cs[u] # <<>> /\ FirstMatch(cs[u][1], p) # 0

\* mutant of IncLine: $set in place of $inc
IncLine_set(cs, u, p, q) ==
    IF HasLine(cs, u, p)
    THEN LET k == FirstMatch(cs[u][1], p)
         IN [cs EXCEPT ![u] = <<[cs[u][1] EXCEPT ![k].quantity = q]>>]
    ELSE cs

\* update_one({"user_id": u, "items.productId": p}, {"$inc": {"items.$.quantity": q}})
IncLine(cs, u, p, q) ==
    IF HasLine(cs, u, p)
    THEN LET k == FirstMatch(cs[u][1], p)
         IN [cs EXCEPT ![u] = <<[cs[u][1] EXCEPT ![k].quantity = @ + q]>>]
    ELSE cs

\* update_one({"user_id": u}, {"$push": {"items": item}}, upsert=True)
PushLine(cs, u, item) ==
    IF cs[u] = <<>>
    THEN [cs EXCEPT ![u] = <<<<item>>>>]
    ELSE [cs EXCEPT ![u] = <<Append(cs[u][1], item)>>]

\* mutant of DecStock: the stock drops by one unit whatever the quantity
DecStock_one(ps, p, q) ==
    IF ps[p] # <<>>
    THEN [ps EXCEPT ![p] = <<[ps[p][1] EXCEPT !.stock = @ - 1]>>]
    ELSE ps

\* update_one({"_id": p}, {"$inc": {"stock": -q}})
DecStock(ps, p, q) ==
    IF ps[p] # <<>>
    THEN [ps EXCEPT ![p] = <<[ps[p][1] EXCEPT !.stock = @ - q]>>]
    ELSE ps

\* find_one({"user_id": u}) is falsy, or its items list is
CartEmpty(cs, u) == IF cs[u] = <<>> THEN TRUE ELSE cs[u][1] = <<>>

Init ==
    /\ products \in [ProductIds -> {<<>>} \cup {<<[price |-> Price[p], stock |-> s]>> :
                                                  p \in ProductIds, s \in 0..MaxStock}]
    /\ \A p \in ProductIds : products[p] # <<>> => products[p][1].price = Price[p]
    /\ carts \in [Users -> {<<>>, <<<<>>>>}]
    /\ orders = <<>>
    /\ pc = [r \in Reqs |-> "idle"]
    /\ op = [r \in Reqs |-> NoOp]
    /\ cart = [r \in Reqs |-> <<>>]
    /\ idx = [r \in Reqs |-> 0]
    /\ found = [r \in Reqs |-> FALSE]
    /\ order = [r \in Reqs |-> NoOrder]
    /\ result = [r \in Reqs |-> NoResult]
    /\ served = 0
    /\ pre = [r \in Reqs |-> NoSnapshot]
    /\ solo = [r \in Reqs |-> TRUE]
    /\ stale = [r \in Reqs |-> FALSE]
    /\ serial = [u \in Users |-> TRUE]
    /\ first = [u \in Users |-> <<>>]
    /\ added = [u \in Users |-> [p \in ProductInputs |-> 0]]

\* history: the run of uninterrupted add_to_cart requests of u has ended
EndSerial(u) ==
    /\ serial' = [serial EXCEPT ![u] = FALSE]
    /\ first' = [first EXCEPT ![u] = <<>>]
    /\ added' = [added EXCEPT ![u] = [p \in ProductInputs |-> 0]]

\* ------------------------------------------------------------ add_to_cart
\* ObjectId(user_id) raises InvalidId: 400 before any store call
add_to_cart_invalid(r, p, q) ==
    /\ Begin(r, "add_to_cart", BadId, p, q)
    /\ Return(r, Response(400, "Invalid user ID format"))
    /\ UNCHANGED <<products, carts, orders, cart, idx, found, order, stale, serial, first, added>>

\* cart = carts_collection.find_one({user_id, items.productId})
add_to_cart_find(r, u, p, q) ==
    /\ Begin(r, "add_to_cart", u, p, q)
    /\ found' = [found EXCEPT ![r] = HasLine(carts, u, p)]
    /\ pc' = [pc EXCEPT ![r] = "add_update"]
    /\ UNCHANGED <<products, carts, orders, cart, idx, order, result, stale, serial, first, added>>

\* the update_one of the branch taken, then the success response
add_to_cart_update(r) ==
    /\ Continue(r, "add_update")
    /\ LET u == op[r].user_id
           item == [productId |-> op[r].productId, quantity |-> op[r].quantity]
       IN /\ carts' = IF found[r]
                      THEN IncLine(carts, u, item.productId, item.quantity)
                      ELSE PushLine(carts, u, item)
          /\ IF serial[u] /\ solo[r]
             THEN /\ first' = [first EXCEPT ![u] =
                                 IF \E k \in 1..Len(@) : @[k] = item.productId
                                 THEN @ ELSE Append(@, item.productId)]
                  /\ added' = [added EXCEPT ![u][item.productId] = @ + item.quantity]
                  /\ UNCHANGED serial
             ELSE EndSerial(u)
    /\ Return(r, Response(200, "Item added to cart"))
    /\ UNCHANGED <<products, orders, cart, idx, found, order, stale>>

\* ---------------------------------------------------------------- get_cart
get_cart_invalid(r) ==
    /\ Begin(r, "get_cart", BadId, "", 0)
    /\ Return(r, Response(400, "Invalid user ID format"))
    /\ UNCHANGED <<products, carts, orders, cart, idx, found, order, stale, serial, first, added>>

\* find_one({"user_id": u}): no cart, or no items
get_cart_empty(r, u) ==
    /\ Begin(r, "get_cart", u, "", 0)
    /\ CartEmpty(carts, u)
    /\ Return(r, Response(200, "cart"))
    /\ UNCHANGED <<products, carts, orders, cart, idx, found, order, stale, serial, first, added>>

\* find_one({"user_id": u}): a cart with items; products = [], total_price = 0
get_cart_find(r, u) ==
    /\ Begin(r, "get_cart", u, "", 0)
    /\ ~CartEmpty(carts, u)
    /\ cart' = [cart EXCEPT ![r] = carts[u][1]]
    /\ idx' = [idx EXCEPT ![r] = 1]
    /\ order' = [order EXCEPT ![r] = [NoOrder EXCEPT !.user_id = u]]
    /\ pc' = [pc EXCEPT ![r] = "get_product"]
    /\ UNCHANGED <<products, carts, orders, found, result, stale, serial, first, added>>

\* the enriched line get_cart appends for a cart line and its product
Enriched(item, product) ==
    [product_id |-> item.productId,
     quantity |-> item.quantity,
     unit_price |-> product.price,
     subtotal |-> product.price * item.quantity]

\* one iteration of get_cart's loop: ObjectId(item["productId"]), find_one, append
get_cart_product(r) ==
    /\ Continue(r, "get_product")
    /\ LET item == cart[r][idx[r]]
           last == idx[r] = Len(cart[r])
           acc == IF ObjectIdOk(item.productId) /\ products[item.productId] # <<>>
                  THEN LET line == Enriched(item, products[item.productId][1])
                       IN [order[r] EXCEPT !.products = Append(@, line),
                                           !.total = @ + line.subtotal]
                  ELSE order[r]
       IN IF ~ObjectIdOk(item.productId)
          THEN \* InvalidId is raised outside the try block: unhandled
               /\ Return(r, Response(500, "Internal Server Error"))
               /\ UNCHANGED <<idx, order>>
          ELSE /\ order' = [order EXCEPT ![r] = acc]
               /\ IF last
                  THEN /\ Return(r, [Response(200, "cart") EXCEPT
                                        !.products = acc.products, !.total = acc.total])
                       /\ UNCHANGED idx
                  ELSE /\ idx' = [idx EXCEPT ![r] = @ + 1]
                       /\ UNCHANGED <<pc, result>>
    /\ UNCHANGED <<products, carts, orders, cart, found, stale, serial, first, added>>

\* ---------------------------------------------------------------- checkout
checkout_invalid(r) ==
    /\ Begin(r, "checkout", BadId, "", 0)
    /\ Return(r, Response(400, "Invalid user ID format"))
    /\ UNCHANGED <<products, carts, orders, cart, idx, found, order, stale, serial, first, added>>

\* mutant of checkout_empty: the emptiness check is missing, so an order
\* without products is placed and the cart document deleted
checkout_empty_unchecked(r, u) ==
    /\ Begin(r, "checkout", u, "", 0)
    /\ CartEmpty(carts, u)
    /\ orders' = Append(orders, [NoOrder EXCEPT !.id = Len(orders) + 1, !.user_id = u])
    /\ carts' = [carts EXCEPT ![u] = <<>>]
    /\ Return(r, Response(200, "Order placed successfully"))
    /\ EndSerial(u)
    /\ UNCHANGED <<products, cart, idx, found, order, stale>>

\* find_one({"user_id": u}): no cart, or no items
checkout_empty(r, u) ==
    /\ Begin(r, "checkout", u, "", 0)
    /\ CartEmpty(carts, u)
    /\ Return(r, Response(400, "Cart is empty"))
    /\ EndSerial(u)
    /\ UNCHANGED <<products, carts, orders, cart, idx, found, order, stale>>

\* find_one({"user_id": u}): a cart with items; order = {user_id, [], 0}
checkout_find(r, u) ==
    /\ Begin(r, "checkout", u, "", 0)
    /\ ~CartEmpty(carts, u)
    /\ cart' = [cart EXCEPT ![r] = carts[u][1]]
    /\ idx' = [idx EXCEPT ![r] = 1]
    /\ order' = [order EXCEPT ![r] = [NoOrder EXCEPT !.user_id = u]]
    /\ pc' = [pc EXCEPT ![r] = "co_product"]
    /\ EndSerial(u)
    /\ UNCHANGED <<products, carts, orders, found, result, stale>>

\* the loop moves to the next cart line, or leaves the loop
NextLine(r) ==
    IF idx[r] < Len(cart[r])
    THEN /\ idx' = [idx EXCEPT ![r] = @ + 1]
         /\ pc' = [pc EXCEPT ![r] = "co_product"]
    ELSE /\ pc' = [pc EXCEPT ![r] = "co_insert"]
         /\ UNCHANGED idx

\* ObjectId(item["productId"]) raises InvalidId inside the loop: unhandled
checkout_bad_id(r) ==
    /\ Continue(r, "co_product")
    /\ ~ObjectIdOk(cart[r][idx[r]].productId)
    /\ Return(r, Response(500, "Internal Server Error"))
    /\ UNCHANGED <<products, carts, orders, cart, idx, found, order, stale, serial, first, added>>

\* products_collection.find_one finds nothing: the line is skipped
checkout_skip(r) ==
    /\ Continue(r, "co_product")
    /\ ObjectIdOk(cart[r][idx[r]].productId)
    /\ products[cart[r][idx[r]].productId] = <<>>
    /\ NextLine(r)
    /\ UNCHANGED <<products, carts, orders, cart, found, order, result, stale, serial, first, added>>

\* mutant of checkout_insufficient: the cart is cleared before the 400
checkout_insufficient_clears(r) ==
    /\ Continue(r, "co_product")
    /\ LET item == cart[r][idx[r]]
       IN /\ ObjectIdOk(item.productId)
          /\ products[item.productId] # <<>>
          /\ products[item.productId][1].stock < item.quantity
          /\ Return(r, [Response(400, "Not enough stock for") EXCEPT
                            !.products = <<item.productId>>])
    /\ carts' = [carts EXCEPT ![op[r].user_id] = <<>>]
    /\ UNCHANGED <<products, orders, cart, idx, found, order, stale, serial, first, added>>

\* product["stock"] < item["quantity"]: 400 naming the product
checkout_insufficient(r) ==
    /\ Continue(r, "co_product")
    /\ LET item == cart[r][idx[r]]
       IN /\ ObjectIdOk(item.productId)
          /\ products[item.productId] # <<>>
          /\ products[item.productId][1].stock < item.quantity
          /\ Return(r, [Response(400, "Not enough stock for") EXCEPT
                            !.products = <<item.productId>>])
    /\ UNCHANGED <<products, carts, orders, cart, idx, found, order, stale, serial, first, added>>

\* the product is found with enough stock: the line joins the order
checkout_product(r) ==
    /\ Continue(r, "co_product")
    /\ LET item == cart[r][idx[r]]
       IN /\ ObjectIdOk(item.productId)
          /\ products[item.productId] # <<>>
          /\ ~(products[item.productId][1].stock < item.quantity)
          /\ order' = [order EXCEPT
                ![r].products = Append(@, item),
                ![r].total = @ + products[item.productId][1].price * item.quantity]
    /\ pc' = [pc EXCEPT ![r] = "co_dec"]
    /\ UNCHANGED <<products, carts, orders, cart, idx, found, result, stale, serial, first, added>>

\* products_collection.update_one({_id}, {$inc: {stock: -quantity}})
checkout_dec(r) ==
    /\ Continue(r, "co_dec")
    /\ products' = DecStock(products, cart[r][idx[r]].productId, cart[r][idx[r]].quantity)
    /\ NextLine(r)
    /\ UNCHANGED <<carts, orders, cart, found, order, result, stale, serial, first, added>>

\* mutant of checkout_insert: the user's previous order is replaced
\* (replace_one with upsert, keyed by user_id) instead of a new one inserted
checkout_insert_replaces(r) ==
    /\ Continue(r, "co_insert")
    /\ LET u == op[r].user_id
           old == {j \in 1..Len(orders) : orders[j].user_id = u}
           at == IF old = {} THEN Len(orders) + 1 ELSE CHOOSE j \in old : TRUE
       IN /\ order' = [order EXCEPT ![r].id = at]
          /\ orders' = IF old = {} THEN Append(orders, order'[r])
                       ELSE [orders EXCEPT ![at] = order'[r]]
    /\ pc' = [pc EXCEPT ![r] = "co_delete"]
    /\ UNCHANGED <<products, carts, cart, idx, found, result, stale, serial, first, added>>

\* orders_collection.insert_one(order): the store assigns the order's id
checkout_insert(r) ==
    /\ Continue(r, "co_insert")
    /\ order' = [order EXCEPT ![r].id = Len(orders) + 1]
    /\ orders' = Append(orders, order'[r])
    /\ pc' = [pc EXCEPT ![r] = "co_delete"]
    /\ UNCHANGED <<products, carts, cart, idx, found, result, stale, serial, first, added>>

\* carts_collection.delete_one({"user_id": u}), then the success response
checkout_delete(r) ==
    /\ Continue(r, "co_delete")
    /\ carts' = [carts EXCEPT ![op[r].user_id] = <<>>]
    /\ stale' = [x \in Reqs |->
                    IF /\ x # r
                       /\ op[x].kind = "checkout"
                       /\ op[x].user_id = op[r].user_id
                       /\ pc[x] \in {"co_product", "co_dec", "co_insert", "co_delete"}
                    THEN TRUE ELSE stale[x]]
    /\ Return(r, [Response(200, "Order placed successfully") EXCEPT
                      !.products = <<order[r].id>>, !.total = order[r].total])
    /\ UNCHANGED <<products, orders, cart, idx, found, order, serial, first, added>>

\* ---------------------------------------------------------- delete_product
\* products_collection.delete_one({"_id": p}) with deleted_count = 1
delete_product(p) ==
    /\ ~Returned
    /\ served < MaxReqs
    /\ served' = served + 1
    /\ products[p] # <<>>
    /\ products' = [products EXCEPT ![p] = <<>>]
    /\ solo' = [x \in Reqs |-> IF Active(x) THEN FALSE ELSE solo[x]]
    /\ UNCHANGED <<carts, orders, pc, op, cart, idx, found, order, result,
                   pre, stale, serial, first, added>>

\* --------------------------------------------------------------- response
\* the response is sent and the handler's frame is gone
respond(r) ==
    /\ pc[r] = "done"
    /\ pc' = [pc EXCEPT ![r] = "idle"]
    /\ op' = [op EXCEPT ![r] = NoOp]
    /\ cart' = [cart EXCEPT ![r] = <<>>]
    /\ idx' = [idx EXCEPT ![r] = 0]
    /\ found' = [found EXCEPT ![r] = FALSE]
    /\ order' = [order EXCEPT ![r] = NoOrder]
    /\ result' = [result EXCEPT ![r] = NoResult]
    /\ pre' = [pre EXCEPT ![r] = NoSnapshot]
    /\ solo' = [solo EXCEPT ![r] = TRUE]
    /\ stale' = [stale EXCEPT ![r] = FALSE]
    /\ UNCHANGED <<products, carts, orders, served, serial, first, added>>

Next ==
    \/ \E r \in Reqs, p \in ProductInputs, q \in 1..MaxQty : add_to_cart_invalid(r, p, q)
    \/ \E r \in Reqs, u \in Users, p \in ProductInputs, q \in 1..MaxQty : add_to_cart_find(r, u, p, q)
    \/ \E r \in Reqs : add_to_cart_update(r)
    \/ \E r \in Reqs : get_cart_invalid(r)
    \/ \E r \in Reqs, u \in Users : get_cart_empty(r, u)
    \/ \E r \in Reqs, u \in Users : get_cart_find(r, u)
    \/ \E r \in Reqs : get_cart_product(r)
    \/ \E r \in Reqs : checkout_invalid(r)
    \/ \E r \in Reqs, u \in Users : checkout_empty(r, u)
    \/ \E r \in Reqs, u \in Users : checkout_find(r, u)
    \/ \E r \in Reqs : checkout_bad_id(r)
    \/ \E r \in Reqs : checkout_skip(r)
    \/ \E r \in Reqs : checkout_insufficient(r)
    \/ \E r \in Reqs : checkout_product(r)
    \/ \E r \in Reqs : checkout_dec(r)
    \/ \E r \in Reqs : checkout_insert(r)
    \/ \E r \in Reqs : checkout_delete(r)
    \/ \E p \in ProductIds : delete_product(p)
    \/ \E r \in Reqs : respond(r)

Spec == Init /\ [][Next]_vars

\* =========================================================================
\* Properties
\* =========================================================================
Finished(r, kind) == pc[r] = "done" /\ op[r].kind = kind

\* the items of u's cart document in store contents s (none if no document)
ItemsOf(s, u) == IF s.carts[u] = <<>> THEN <<>> ELSE s.carts[u][1]

\* the cart lines whose product exists in the products collection ps
WithProduct(items, ps) ==
    SelectSeq(items, LAMBDA it : IF ObjectIdOk(it.productId)
                                 THEN ps[it.productId] # <<>> ELSE FALSE)

\* the sum of the quantities of the first n lines for product p
RECURSIVE QtyBefore(_, _, _)
QtyBefore(items, n, p) ==
    IF n = 0 THEN 0
    ELSE QtyBefore(items, n - 1, p)
         + (IF items[n].productId = p THEN items[n].quantity ELSE 0)

LineQty(items, p) == QtyBefore(items, Len(items), p)

\* sum of price * quantity over the first n lines (all with an existing product)
RECURSIVE TotalOf(_, _, _)
TotalOf(items, n, ps) ==
    IF n = 0 THEN 0
    ELSE TotalOf(items, n - 1, ps) + ps[items[n].productId][1].price * items[n].quantity

\* what get_cart is to return for the stored items and products
CartView(items, ps) ==
    LET kept == WithProduct(items, ps)
    IN [status |-> 200, detail |-> "cart",
        products |-> [k \in 1..Len(kept) |->
                        [product_id |-> kept[k].productId,
                         quantity |-> kept[k].quantity,
                         unit_price |-> ps[kept[k].productId][1].price,
                         subtotal |-> ps[kept[k].productId][1].price * kept[k].quantity]],
        total |-> TotalOf(kept, Len(kept), ps)]

InsufficientStock(r) ==
    /\ Finished(r, "checkout")
    /\ result[r].status = 400
    /\ result[r].detail = "Not enough stock for"

Succeeded(r, kind) == Finished(r, kind) /\ result[r].status = 200

\* C1: in every reachable state every product's stock is >= 0, whatever the
\* interleaving of add_to_cart and checkout requests.
C1_StockNonNegative ==
    \A p \in ProductIds : products[p] # <<>> => products[p][1].stock >= 0

\* C2: a checkout that ran without interleaving and succeeded (i) found every
\* line with an existing product within the stock left when the line was
\* evaluated, (ii) lowered each product's stock by exactly the quantity of its
\* cart lines and changed nothing else of the products, (iii) added exactly one
\* order, for this user, holding the lines with an existing product in cart
\* order and the total get_cart computes, and (iv) removed the user's cart.
C2_CheckoutSuccess ==
    \A r \in Reqs :
        (Succeeded(r, "checkout") /\ solo[r]) =>
            LET u == op[r].user_id
                items == ItemsOf(pre[r], u)
                ps == pre[r].products
                kept == WithProduct(items, ps)
            IN /\ items # <<>>
               /\ \A k \in 1..Len(kept) :
                     kept[k].quantity <= ps[kept[k].productId][1].stock
                                         - QtyBefore(kept, k - 1, kept[k].productId)
               /\ \A p \in ProductIds :
                     products[p] = IF ps[p] = <<>> THEN <<>>
                                   ELSE <<[ps[p][1] EXCEPT !.stock = @ - LineQty(items, p)]>>
               /\ Len(orders) = Len(pre[r].orders) + 1
               /\ SubSeq(orders, 1, Len(pre[r].orders)) = pre[r].orders
               /\ orders[Len(orders)].user_id = u
               /\ orders[Len(orders)].products = kept
               /\ orders[Len(orders)].total = CartView(items, ps).total
               /\ result[r].total = CartView(items, ps).total
               /\ carts = [pre[r].carts EXCEPT ![u] = <<>>]

\* C2 witness: such a checkout of a cart with a line whose product exists and
\* a line whose product does not.
C2_Witness ==
    \E r \in Reqs :
        /\ Succeeded(r, "checkout") /\ solo[r]
        /\ Len(ItemsOf(pre[r], op[r].user_id)) = 2
        /\ Len(orders[Len(orders)].products) = 1
        /\ orders[Len(orders)].total > 0

\* C3: a checkout that fails with InsufficientStock leaves every product's
\* stock as it was before the checkout started (stated for a checkout that ran
\* without interleaving, on a cart with one line per product id).
C3_AllOrNothing ==
    \A r \in Reqs :
        (/\ InsufficientStock(r) /\ solo[r]
         /\ \A i, j \in 1..Len(ItemsOf(pre[r], op[r].user_id)) :
               i # j => ItemsOf(pre[r], op[r].user_id)[i].productId
                        # ItemsOf(pre[r], op[r].user_id)[j].productId) =>
            products = pre[r].products

\* C4: a checkout that fails with InsufficientStock has inserted no order and
\* the user's cart still exists with the lines and quantities it had.
C4_FailureKeepsCartAndOrders ==
    \A r \in Reqs :
        (InsufficientStock(r) /\ solo[r]) =>
            /\ orders = pre[r].orders
            /\ carts = pre[r].carts
            /\ ~CartEmpty(carts, op[r].user_id)

\* C4 witness: the failure is on the second line, after a first line passed.
C4_Witness ==
    \E r \in Reqs :
        /\ InsufficientStock(r) /\ solo[r]
        /\ idx[r] = 2
        /\ Len(order[r].products) = 1

\* C5: checkout for a valid user whose cart is absent or has no items fails
\* with "Cart is empty" and leaves carts, products and orders as they were.
C5_EmptyCart ==
    \A r \in Reqs :
        (Finished(r, "checkout") /\ ObjectIdOk(op[r].user_id)
            /\ CartEmpty(pre[r].carts, op[r].user_id)) =>
            /\ result[r] = Response(400, "Cart is empty")
            /\ Snapshot = pre[r]

\* C5 witness: the cart document exists with an empty items list, while the
\* store holds an order and another user's cart.
C5_Witness ==
    \E r \in Reqs :
        /\ Finished(r, "checkout") /\ ObjectIdOk(op[r].user_id)
        /\ carts[op[r].user_id] = <<<<>>>>
        /\ result[r].detail = "Cart is empty"
        /\ orders # <<>>

\* C5 witness for the absent cart (after a checkout removed it)
C5_WitnessAbsent ==
    \E r \in Reqs :
        /\ Finished(r, "checkout") /\ ObjectIdOk(op[r].user_id)
        /\ carts[op[r].user_id] = <<>>
        /\ result[r].detail = "Cart is empty"
        /\ \E k \in 1..Len(orders) : orders[k].user_id = op[r].user_id

\* C6: after add_to_cart calls for one user run one after another, from no
\* cart line and with no checkout in between, the cart has one line per product
\* id added, in the order of the first adds, each with the sum of the
\* quantities passed for it (and no cart document while nothing was added).
C6_AddAccumulates ==
    \A u \in Users :
        serial[u] =>
            IF first[u] = <<>>
            THEN CartEmpty(carts, u)
            ELSE carts[u] = <<[k \in 1..Len(first[u]) |->
                                [productId |-> first[u][k],
                                 quantity |-> added[u][first[u][k]]]]>>

\* C6 witness: three adds, two of them for the product added first.
C6_Witness ==
    \E u \in Users :
        /\ serial[u]
        /\ Len(first[u]) = 2
        /\ added[u][first[u][1]] = 2
        /\ ~Returned

\* C7: get_cart changes no stored state and returns the enriched lines of the
\* cart lines whose product exists, in cart order, with their total (no lines
\* and total 0 for an absent or empty cart).
C7_GetCart ==
    \A r \in Reqs :
        (Finished(r, "get_cart") /\ ObjectIdOk(op[r].user_id) /\ solo[r]) =>
            /\ Snapshot = pre[r]
            /\ result[r] = CartView(ItemsOf(pre[r], op[r].user_id), pre[r].products)

\* C7 restricted to carts whose product ids are all well-formed
C7_GetCartWellFormed ==
    \A r \in Reqs :
        (/\ Finished(r, "get_cart") /\ ObjectIdOk(op[r].user_id) /\ solo[r]
         /\ \A k \in 1..Len(ItemsOf(pre[r], op[r].user_id)) :
               ObjectIdOk(ItemsOf(pre[r], op[r].user_id)[k].productId)) =>
            /\ Snapshot = pre[r]
            /\ result[r] = CartView(ItemsOf(pre[r], op[r].user_id), pre[r].products)

C7_WellFormedWitness ==
    \E r \in Reqs :
        /\ Finished(r, "get_cart") /\ ObjectIdOk(op[r].user_id) /\ solo[r]
        /\ Len(ItemsOf(pre[r], op[r].user_id)) = 2
        /\ Len(result[r].products) = 1
        /\ result[r].total > 0

\* C8: a checkout whose cart was deleted by another checkout of the same user
\* after it had read it still completes: its own order is in the orders
\* collection beside another order of that user, built from the cart it read,
\* and the stock of each product it ordered has dropped by at least its line.
C8_DoubleCheckout ==
    \A r \in Reqs :
        (Succeeded(r, "checkout") /\ stale[r]) =>
            LET u == op[r].user_id
            IN /\ order[r].id \in 1..Len(orders)
               /\ orders[order[r].id] = order[r]
               /\ \E j \in 1..Len(orders) : j # order[r].id /\ orders[j].user_id = u
               /\ \A k \in 1..Len(order[r].products) :
                     \E j \in 1..Len(cart[r]) : cart[r][j] = order[r].products[k]
               /\ \A p \in ProductIds :
                     products[p] # <<>> =>
                        products[p][1].stock <=
                            pre[r].products[p][1].stock - LineQty(order[r].products, p)

\* C8 witness: both checkouts read the same cart and both succeeded: two orders
\* hold the lines of the one cart, and the stock of each product of the cart is
\* down by twice its line quantity since the cart was read.
C8_Witness ==
    \E r \in Reqs :
        /\ Succeeded(r, "checkout") /\ stale[r]
        /\ Len(orders) = 2
        /\ cart[r] = ItemsOf(pre[r], op[r].user_id)
        /\ orders[1].products = cart[r]
        /\ orders[2].products = cart[r]
        /\ orders[1].user_id = orders[2].user_id
        /\ \A k \in 1..Len(cart[r]) :
              /\ products[cart[r][k].productId] # <<>>
              /\ products[cart[r][k].productId][1].stock >= 0
              /\ products[cart[r][k].productId][1].stock =
                    pre[r].products[cart[r][k].productId][1].stock
                    - 2 * cart[r][k].quantity

\* C9: a user's cart never has two lines for the same product id.
C9_OneLinePerProduct ==
    \A u \in Users :
        carts[u] # <<>> =>
            \A i, j \in 1..Len(carts[u][1]) :
                i # j => carts[u][1][i].productId # carts[u][1][j].productId

\* C10: when add_to_cart returns "Item added to cart" (for a product of the
\* catalogue), its quantity is in the user's cart, or in an order inserted since
\* the request started.
C10_AddPersisted ==
    \A r \in Reqs :
        (/\ Succeeded(r, "add_to_cart")
         /\ ObjectIdOk(op[r].productId)
         /\ products[op[r].productId] # <<>>) =>
            LET u == op[r].user_id
                p == op[r].productId
                had == LineQty(ItemsOf(pre[r], u), p)
            IN \/ LineQty(ItemsOf(Snapshot, u), p) >= op[r].quantity
               \/ \E k \in (Len(pre[r].orders) + 1)..Len(orders) :
                     /\ orders[k].user_id = u
                     /\ LineQty(orders[k].products, p) >= had + op[r].quantity
====
